---- MODULE Spec2Model ----
(***************************************************************************)
(* The q-gram search index of raidquaza/search/qgram_index.py.             *)
(*                                                                         *)
(* Strings are sequences of one-character strings.  The scorers work on    *)
(* numpy float matrices whose entries are all multiples of 0.5; the model  *)
(* stores every matrix entry and every score DOUBLED, as an integer, which *)
(* keeps equality, order and the test "== 0" exactly as in the floats.     *)
(***************************************************************************)
EXTENDS Integers, Sequences, FiniteSets, TLC

VARIABLES index, call, result, raised, catalogs

vars == <<index, call, result, raised, catalogs>>

\* -------------------------------------------------------------------------
\* Bounds of the model
\* -------------------------------------------------------------------------
MaxTextLen == 4
MaxQ == 3
MaxLists == 2
MaxListLen == 2
MaxId == 2
MaxPedLen == 3
MaxDelta == 2
MaxK == 2
MaxRecords == 2
MaxFileRows == 2

\* -------------------------------------------------------------------------
\* Values
\* -------------------------------------------------------------------------
None == "None"
Chars == {"a", "b"}
Sentinel == "$"

Min2(a, b) == IF a <= b THEN a ELSE b

\* all sequences over S of length at most n
SeqsUpTo(S, n) == UNION {[1..l -> S] : l \in 0..n}

\* Python's s[:k]
Slice(s, k) ==
    IF k >= 0 THEN SubSeq(s, 1, Min2(k, Len(s)))
    ELSE SubSeq(s, 1, Len(s) + k)

\* "$" * n  (the empty string for n <= 0)
Pad(n) == [i \in 1..n |-> Sentinel]

\* -------------------------------------------------------------------------
\* get_qgrams
\* -------------------------------------------------------------------------
get_qgrams_short(str, q) ==
    LET padded == Pad(q - 1) \o str \o Pad(q - 1)
    IN  [i \in 1..(Len(padded) - q) |-> SubSeq(padded, i, i + q - 1)]

get_qgrams(str, q) ==
    LET padded == Pad(q - 1) \o str \o Pad(q - 1)
    IN  [i \in 1..(Len(padded) - q + 1) |-> SubSeq(padded, i, i + q - 1)]

\* -------------------------------------------------------------------------
\* merge: a Counter updated list by list, element by element; items() lists
\* the keys in the order of their first insertion.
\* -------------------------------------------------------------------------
RECURSIVE CounterAdd(_, _, _)
CounterAdd(counter, id, i) ==
    IF i > Len(counter) THEN Append(counter, <<id, 1>>)
    ELSE IF counter[i][1] = id
         THEN [counter EXCEPT ![i] = <<id, counter[i][2] + 1>>]
         ELSE CounterAdd(counter, id, i + 1)

RECURSIVE CounterUpdate(_, _, _)
CounterUpdate(counter, l, j) ==
    IF j > Len(l) THEN counter
    ELSE CounterUpdate(CounterAdd(counter, l[j], 1), l, j + 1)

RECURSIVE MergeFrom(_, _, _)
MergeFrom(counter, lists, n) ==
    IF n > Len(lists) THEN counter
    ELSE MergeFrom(CounterUpdate(counter, lists[n], 1), lists, n + 1)

\* Counter.most_common() in place of items(): by count, largest first, ties in
\* insertion order
RECURSIVE InsertByCount(_, _)
InsertByCount(sorted, pair) ==
    IF sorted = <<>> THEN <<pair>>
    ELSE IF Head(sorted)[2] < pair[2] THEN <<pair>> \o sorted
    ELSE <<Head(sorted)>> \o InsertByCount(Tail(sorted), pair)

RECURSIVE MostCommon(_, _)
MostCommon(sorted, items) ==
    IF items = <<>> THEN sorted
    ELSE MostCommon(InsertByCount(sorted, Head(items)), Tail(items))

merge_most_common(lists) == MostCommon(<<>>, MergeFrom(<<>>, lists, 1))

merge(lists) == MergeFrom(<<>>, lists, 1)

\* -------------------------------------------------------------------------
\* compute_ped
\* -------------------------------------------------------------------------
\* one cell of the unit-cost recurrence (lines 96-100)
PedCell(matrix, prefix, str, i, j) ==
    LET repl == IF prefix[i] = str[j] THEN matrix[<<i - 1, j - 1>>]
                ELSE matrix[<<i - 1, j - 1>>] + 1
    IN  Min2(Min2(repl, matrix[<<i, j - 1>>] + 1), matrix[<<i - 1, j>>] + 1)

RECURSIVE PedFill(_, _, _, _, _, _, _)
PedFill(matrix, prefix, str, n, m, i, j) ==
    IF i >= n THEN matrix
    ELSE IF j >= m THEN PedFill(matrix, prefix, str, n, m, i + 1, 1)
    ELSE PedFill([matrix EXCEPT ![<<i, j>>] = PedCell(matrix, prefix, str, i, j)],
                 prefix, str, n, m, i, j + 1)

RECURSIVE MinOfRow(_, _, _, _)
MinOfRow(matrix, row, j, m) ==
    IF j = m - 1 THEN matrix[<<row, j>>]
    ELSE Min2(matrix[<<row, j>>], MinOfRow(matrix, row, j + 1, m))

PedWith(prefix, str, n, m) ==
    LET init == [c \in (0..(n - 1)) \X (0..(m - 1)) |->
                    IF c[2] = 0 THEN c[1] ELSE IF c[1] = 0 THEN c[2] ELSE 0]
        matrix == PedFill(init, prefix, str, n, m, 1, 1)
    IN  MinOfRow(matrix, n - 1, 0, m)

\* the matrix cut to delta + 1 columns, forgetting len(prefix)
compute_ped_narrow(prefix, str, delta) ==
    PedWith(prefix, str, Len(prefix) + 1, Min2(delta + 1, Len(str) + 1))

compute_ped(prefix, str, delta) ==
    PedWith(prefix, str, Len(prefix) + 1,
            Min2(Len(prefix) + delta + 1, Len(str) + 1))

\* -------------------------------------------------------------------------
\* The scorers.  Every value is twice the value of the source.
\* -------------------------------------------------------------------------
\* matrix = np.zeros((size_x, size_y)); matrix[x, 0] = x; matrix[0, y] = y
ScoreInit(seq1, seq2) ==
    [c \in (0..Len(seq1)) \X (0..Len(seq2)) |->
        IF c[2] = 0 THEN 2 * c[1] ELSE IF c[1] = 0 THEN 2 * c[2] ELSE 0]

Min3(a, b, c) == Min2(Min2(a, b), c)

\* the min(...) of both branches of the inner loop
ScoreCell(matrix, seq1, seq2, x, y, match, mismatch, gap_penalty) ==
    Min3(matrix[<<x - 1, y>>] + gap_penalty,
         matrix[<<x - 1, y - 1>>] + (IF seq1[x] = seq2[y] THEN match ELSE mismatch),
         matrix[<<x, y - 1>>] + gap_penalty)

\* (matrix[x, y] == matrix[x - 1, y] + gap_penalty or matrix[x, y - 1] + gap_penalty):
\* "or" binds looser than "==", so the right operand is the number itself,
\* true unless it is 0
GapTest(matrix, value, x, y, gap_penalty) ==
    \/ value = matrix[<<x - 1, y>>] + gap_penalty
    \/ matrix[<<x, y - 1>>] + gap_penalty # 0

RECURSIVE LevFill(_, _, _, _, _)
LevFill(matrix, seq1, seq2, x, y) ==
    IF x > Len(seq1) THEN matrix[<<Len(seq1), Len(seq2)>>]
    ELSE IF y > Len(seq2) THEN LevFill(matrix, seq1, seq2, x + 1, 1)
    ELSE LevFill([matrix EXCEPT ![<<x, y>>] = ScoreCell(matrix, seq1, seq2, x, y, 0, 2, 2)],
                 seq1, seq2, x, y + 1)

levenshtein(seq1, seq2) == LevFill(ScoreInit(seq1, seq2), seq1, seq2, 1, 1)

RECURSIVE NwFill(_, _, _, _, _, _)
NwFill(matrix, gap_opened, seq1, seq2, x, y) ==
    IF x > Len(seq1) THEN matrix[<<Len(seq1), Len(seq2)>>]
    ELSE IF y > Len(seq2) THEN NwFill(matrix, gap_opened, seq1, seq2, x + 1, 1)
    ELSE LET value == ScoreCell(matrix, seq1, seq2, x, y, -2, 2, 2)
             open == GapTest(matrix, value, x, y, 2) /\ ~gap_opened
         IN  NwFill([matrix EXCEPT ![<<x, y>>] = IF open THEN value + 6 ELSE value],
                    open, seq1, seq2, x, y + 1)

needleman_wunsch_scoring(seq1, seq2) ==
    NwFill(ScoreInit(seq1, seq2), FALSE, seq1, seq2, 1, 1)

RECURSIVE AffineFill(_, _, _, _, _, _)
AffineFill(matrix, gap_opened, seq1, seq2, x, y) ==
    IF x > Len(seq1) THEN matrix[<<Len(seq1), Len(seq2)>>]
    ELSE IF y > Len(seq2) THEN AffineFill(matrix, gap_opened, seq1, seq2, x + 1, 1)
    ELSE LET value == ScoreCell(matrix, seq1, seq2, x, y, -6, 2, 1)
             test == GapTest(matrix, value, x, y, 1)
         IN  AffineFill([matrix EXCEPT ![<<x, y>>] =
                            IF test /\ ~gap_opened THEN value + 6 ELSE value],
                        test, seq1, seq2, x, y + 1)

affine_gap_scoring(seq1, seq2) ==
    AffineFill(ScoreInit(seq1, seq2), FALSE, seq1, seq2, 1, 1)

\* -------------------------------------------------------------------------
\* Text normalisation
\* -------------------------------------------------------------------------
Whitespace == {" "}
\* the word characters (\w) among the characters the model's names use
WordChars == {"a", "b", "A", "B", "_"}

\* str.lower(), character by character
Lower(c) == IF c = "A" THEN "a" ELSE IF c = "B" THEN "b" ELSE c

RECURSIVE LStrip(_)
LStrip(s) == IF s # <<>> /\ Head(s) \in Whitespace THEN LStrip(Tail(s)) ELSE s

RECURSIVE RStrip(_)
RStrip(s) ==
    IF s # <<>> /\ s[Len(s)] \in Whitespace THEN RStrip(SubSeq(s, 1, Len(s) - 1)) ELSE s

\* str.strip()
Strip(s) == RStrip(LStrip(s))

\* re.sub("[ \W+\n]", "", record).lower(): every character that is a blank or
\* not a word character is deleted, the rest is lower-cased
Normalize(record) ==
    LET keep == SelectSeq(record, LAMBDA c : c \notin {" ", "+", "\n"} /\ c \in WordChars)
    IN  [i \in 1..Len(keep) |-> Lower(keep[i])]

\* -------------------------------------------------------------------------
\* Dictionaries are functions; d[k] = v adds the key or overwrites it
\* -------------------------------------------------------------------------
EmptyDict == <<>>

DictSet(d, k, v) == [x \in (DOMAIN d) \cup {k} |-> IF x = k THEN v ELSE d[x]]

DictGet(d, k, default) == IF k \in DOMAIN d THEN d[k] ELSE default

\* truth value of an argument: None and the empty string are false
Truthy(v) == v # None /\ v # ""

\* -------------------------------------------------------------------------
\* The index object
\* -------------------------------------------------------------------------
SCORING_TYPE == {"LEVENSHTEIN", "NEEDLEMAN_WUNSCH", "AFFINE_GAPS"}
RECORD_TYPE == {"GYM", "POKESTOP", "UNKNOWN"}

\* GeofenceHelper(geofence): the points the helper answers "inside" for
GeofenceHelper(geofence) == geofence

IsInAnyGeofence(helper, latitude, longitude) == <<latitude, longitude>> \in helper

\* QgramIndex.__init__ and PointOfInterestQgramIndex.__init__
NewIndex(q, use_geofences, channel_to_geofences) ==
    [inverted_lists |-> EmptyDict,
     q |-> q,
     vocab |-> EmptyDict,
     longitude |-> <<>>,
     latitude |-> <<>>,
     types |-> <<>>,
     scoring_method |-> "AFFINE_GAPS",
     use_geofences |-> use_geofences,
     channel_to_geofence_helper |->
        IF use_geofences
        THEN [c \in DOMAIN channel_to_geofences |-> GeofenceHelper(channel_to_geofences[c])]
        ELSE EmptyDict]

\* for qgram in qgrams: inverted_lists.setdefault(qgram, []).append(record_id)
RECURSIVE AddPostings(_, _, _, _)
AddPostings(inverted_lists, qgrams, record_id, i) ==
    IF i > Len(qgrams) THEN inverted_lists
    ELSE AddPostings(DictSet(inverted_lists, qgrams[i],
                             Append(DictGet(inverted_lists, qgrams[i], <<>>), record_id)),
                     qgrams, record_id, i + 1)

IndexRecord(self, record, record_id) ==
    [self EXCEPT !.inverted_lists =
        AddPostings(@, get_qgrams(Normalize(record), self.q), record_id, 1)]

\* one iteration of the loop of build_from_lists; row[2] is read as soon as the
\* row has more than one field
ListRow(self, row, record_id) ==
    LET record == Strip(row[1])
        s1 == [self EXCEPT !.vocab = DictSet(@, record_id, record)]
    IN  IF Len(row) = 2 THEN [self |-> s1, raised |-> "IndexError"]
        ELSE LET s2 == [s1 EXCEPT
                       !.longitude = Append(@, IF Len(row) > 1 THEN row[3] ELSE None),
                       !.latitude = Append(@, IF Len(row) > 2 THEN row[2] ELSE None),
                       !.types = Append(@, IF Len(row) > 3 /\ row[4] \in {"GYM", "POKESTOP"}
                                           THEN row[4] ELSE "UNKNOWN")]
             IN  [self |-> IndexRecord(s2, record, record_id), raised |-> "none"]

RECURSIVE ListRows(_, _, _, _)
ListRows(self, input, i, record_id) ==
    IF i > Len(input) THEN [self |-> self, raised |-> "none"]
    ELSE LET r == ListRow(self, input[i], record_id)
         IN  IF r.raised # "none" THEN r
             ELSE ListRows(r.self, input, i + 1, record_id + 1)

\* record ids continue after the ones the index holds
build_from_lists_continue(self, input) ==
    ListRows(self, input, 1, Cardinality(DOMAIN self.vocab))

build_from_lists(self, input) == ListRows(self, input, 1, 0)

\* one iteration of the loop of build_from_file
FileType(field) ==
    IF Strip(field) = <<"G", "y", "m">> THEN "GYM"
    ELSE IF Strip(field) = <<"P", "o", "k", "e", "s", "t", "o", "p">> THEN "POKESTOP"
    ELSE "UNKNOWN"

FileRow(self, row, record_id) ==
    IF Len(row) = 0 THEN [self |-> self, raised |-> "IndexError"]
    ELSE LET record == Strip(row[1])
             s2 == [self EXCEPT
                       !.vocab = DictSet(@, record_id, record),
                       !.latitude = Append(@, IF Len(row) > 1 THEN Strip(row[2]) ELSE None),
                       !.longitude = Append(@, IF Len(row) > 2 THEN Strip(row[3]) ELSE None),
                       !.types = Append(@, IF Len(row) > 3 THEN FileType(row[4]) ELSE None)]
         IN  [self |-> IndexRecord(s2, record, record_id), raised |-> "none"]

RECURSIVE FileRows(_, _, _, _)
FileRows(self, rows, i, record_id) ==
    IF i > Len(rows) THEN [self |-> self, raised |-> "none"]
    ELSE LET r == FileRow(self, rows[i], record_id)
         IN  IF r.raised # "none" THEN r
             ELSE FileRows(r.self, rows, i + 1, record_id + 1)

\* next(reader, None) skips the header, if there is one
DataRows(file) == IF file = <<>> THEN <<>> ELSE Tail(file)

build_from_file(self, file) == FileRows(self, DataRows(file), 1, 0)

get_posting_list(self, qgram) == DictGet(self.inverted_lists, qgram, <<>>)

\* an unknown scoring method scored as the default one
get_score_default(self, query, word) ==
    [raised |-> "none",
     ed |-> IF self.scoring_method = "LEVENSHTEIN" THEN levenshtein(query, word)
            ELSE IF self.scoring_method = "NEEDLEMAN_WUNSCH"
                 THEN needleman_wunsch_scoring(query, word)
            ELSE affine_gap_scoring(query, word)]

get_score(self, query, word) ==
    IF self.scoring_method = "LEVENSHTEIN"
    THEN [raised |-> "none", ed |-> levenshtein(query, word)]
    ELSE IF self.scoring_method = "NEEDLEMAN_WUNSCH"
    THEN [raised |-> "none", ed |-> needleman_wunsch_scoring(query, word)]
    ELSE IF self.scoring_method = "AFFINE_GAPS"
    THEN [raised |-> "none", ed |-> affine_gap_scoring(query, word)]
    ELSE [raised |-> "NotImplementedError", ed |-> 0]

\* the comparison of line 374 made strict: count > int(threshold)
ThresholdStrict(self, query) ==
    LET n == Len(query) + self.q - 1
    IN  (IF n >= 0 THEN n \div 4 ELSE -((-n) \div 4)) + 1

\* threshold = (len(query) + self.q - 1) / 4, used as int(threshold); int()
\* truncates toward zero
Threshold(self, query) ==
    LET n == Len(query) + self.q - 1
    IN  IF n >= 0 THEN n \div 4 ELSE -((-n) \div 4)

\* the geofence branch of the loop: TRUE when the record is appended
Admitted(self, channel_id, latitude, longitude) ==
    IF self.use_geofences /\ Truthy(channel_id)
       /\ channel_id \in DOMAIN self.channel_to_geofence_helper
    THEN IsInAnyGeofence(self.channel_to_geofence_helper[channel_id], latitude, longitude)
    ELSE TRUE

\* the loop over merged_lists (lines 371-385)
RECURSIVE ResultWords(_, _, _, _, _, _, _)
ResultWords(self, query, delta, channel_id, merged_lists, i, result_words) ==
    IF i > Len(merged_lists) THEN [raised |-> "none", words |-> result_words]
    ELSE LET record_id == merged_lists[i][1]
             count == merged_lists[i][2]
             record == self.vocab[record_id]
             word == Normalize(record)
         IN  IF count >= Threshold(self, query)
             THEN LET score == get_score(self, query, word)
                      longitude == self.longitude[record_id + 1]
                      latitude == self.latitude[record_id + 1]
                      type == self.types[record_id + 1]
                  IN  IF score.raised # "none"
                      THEN [raised |-> score.raised, words |-> <<>>]
                      ELSE ResultWords(self, query, delta, channel_id, merged_lists, i + 1,
                              IF Admitted(self, channel_id, latitude, longitude)
                              THEN Append(result_words,
                                          <<record, <<latitude, longitude>>, type, score.ed>>)
                              ELSE result_words)
             ELSE ResultWords(self, query, delta, channel_id, merged_lists, i + 1, result_words)

\* an insertion that puts a new entry before the entries of equal score
RECURSIVE InsertBeforeEqual(_, _)
InsertBeforeEqual(sorted, e) ==
    IF sorted = <<>> THEN <<e>>
    ELSE IF e[4] <= Head(sorted)[4] THEN <<e>> \o sorted
    ELSE <<Head(sorted)>> \o InsertBeforeEqual(Tail(sorted), e)

\* sorted(result_words, key=lambda x: x[3]): stable, ascending
RECURSIVE InsertByScore(_, _)
InsertByScore(sorted, e) ==
    IF sorted = <<>> THEN <<e>>
    ELSE IF e[4] < Head(sorted)[4] THEN <<e>> \o sorted
    ELSE <<Head(sorted)>> \o InsertByScore(Tail(sorted), e)

RECURSIVE SortedByScore(_, _)
SortedByScore(sorted, words) ==
    IF words = <<>> THEN sorted
    ELSE SortedByScore(InsertByScore(sorted, Head(words)), Tail(words))

Candidates(self, query, use_qindex) ==
    IF use_qindex
    THEN LET qgrams == get_qgrams(query, self.q)
             record_lists == [i \in 1..Len(qgrams) |-> get_posting_list(self, qgrams[i])]
         IN  merge(record_lists)
    ELSE <<>>

find_matches(self, query, delta, k, use_qindex, channel_id) ==
    LET r == ResultWords(self, query, delta, channel_id,
                         Candidates(self, query, use_qindex), 1, <<>>)
    IN  IF r.raised # "none" THEN [raised |-> r.raised, result |-> <<>>]
        ELSE [raised |-> "none", result |-> Slice(SortedByScore(<<>>, r.words), k)]

\* -------------------------------------------------------------------------
\* Inputs
\* -------------------------------------------------------------------------
QValues == {3}

\* the geofence of the configured channels: the point (0, 0) alone is inside
Fence == {<<"0", "0">>}

\* two configured channels; the empty string is a channel id that is false
ChannelToGeofences == [c \in {"", "1"} |-> Fence]

ChannelIds == {None, "", "1", "2"}

ScoringValues == SCORING_TYPE \cup {"COSINE"}

RowAb == << <<"A", "b">>, "0", "0", "GYM" >>
RowAab == << <<"a", " ", "a", "b">>, "1", "1", "POKESTOP" >>
RowA == << <<"a">> >>

ListRowValues == {RowAb, RowAab, RowA}

Queries == { <<"a", "b">>, <<"a", "b", "a", "b", "a", "b">> }

Deltas == {0, 1}

Header == << <<"n">>, <<"l">>, <<"l">>, <<"t">> >>
FileGym == << <<" ", "A", "b">>, <<"0">>, <<" ", "0">>, <<"G", "y", "m">> >>
FileStop == << <<"a", " ", "a", "b">>, <<"1">>, <<"1">>,
               <<"P", "o", "k", "e", "s", "t", "o", "p", " ">> >>
FileArena == << <<"b">>, <<"1">>, <<"0">>, <<"A", "r", "e", "n", "a">> >>
FileThree == << <<"a", "b">>, <<"0">>, <<"1">> >>
FileTwo == << <<"b", "a">>, <<"1">> >>
FileOne == << <<"a">> >>
FileBlank == << >>

FileRowValues == {FileGym, FileStop, FileArena, FileThree, FileTwo, FileOne, FileBlank}

Files == {<<>>} \cup {<<Header>> \o rows : rows \in SeqsUpTo(FileRowValues, MaxFileRows)}

\* catalogs: the non-empty catalogs built into the index so far, in order
RECURSIVE TotalRows(_)
TotalRows(cs) == IF cs = <<>> THEN 0 ELSE Len(Head(cs)) + TotalRows(Tail(cs))

\* -------------------------------------------------------------------------
\* The index: construction, the two builds, the scoring attribute, queries
\* -------------------------------------------------------------------------
\* no query is in progress
NoCall == [op |-> "none"]

Init ==
    /\ index \in {NewIndex(q, g, ChannelToGeofences) : q \in QValues, g \in BOOLEAN}
    /\ call = NoCall
    /\ result = <<>>
    /\ raised = "none"
    /\ catalogs = <<>>

BuildFromLists(input) ==
    /\ call = NoCall
    /\ TotalRows(catalogs) + Len(input) <= MaxRecords
    /\ LET r == build_from_lists(index, input)
       IN  /\ index' = r.self
           /\ raised' = r.raised
    /\ call' = NoCall
    /\ result' = <<>>
    /\ catalogs' = IF input = <<>> THEN catalogs ELSE Append(catalogs, input)

BuildFromFile(file) ==
    /\ call = NoCall
    /\ TotalRows(catalogs) + Len(DataRows(file)) <= MaxRecords
    /\ LET r == build_from_file(index, file)
       IN  /\ index' = r.self
           /\ raised' = r.raised
    /\ call' = NoCall
    /\ result' = <<>>
    /\ catalogs' = IF DataRows(file) = <<>> THEN catalogs
                    ELSE Append(catalogs, DataRows(file))

\* index.scoring_method = value
SetScoringMethod(value) ==
    /\ call = NoCall
    /\ index' = [index EXCEPT !.scoring_method = value]
    /\ call' = NoCall
    /\ result' = <<>>
    /\ raised' = "none"
    /\ UNCHANGED catalogs

\* queries are synchronous: the caller takes the outcome of one call before it
\* makes the next
FindMatches(query, delta, k, use_qindex, channel_id) ==
    /\ call = NoCall
    /\ LET r == find_matches(index, query, delta, k, use_qindex, channel_id)
       IN  /\ result' = r.result
           /\ raised' = r.raised
    /\ call' = [op |-> "find_matches", query |-> query, delta |-> delta, k |-> k,
                use_qindex |-> use_qindex, channel_id |-> channel_id]
    /\ UNCHANGED <<index, catalogs>>

\* the caller takes the outcome of the query
Return ==
    /\ call.op = "find_matches"
    /\ call' = NoCall
    /\ result' = <<>>
    /\ raised' = "none"
    /\ UNCHANGED <<index, catalogs>>

Next ==
    \/ \E input \in SeqsUpTo(ListRowValues, MaxRecords) : BuildFromLists(input)
    \/ \E value \in ScoringValues : SetScoringMethod(value)
    \/ \E query \in Queries, delta \in Deltas, k \in 0..MaxK,
          use_qindex \in BOOLEAN, channel_id \in ChannelIds :
            FindMatches(query, delta, k, use_qindex, channel_id)
    \/ Return

Spec == Init /\ [][Next]_vars

\* The file-based build
NextFile == \E file \in Files : BuildFromFile(file)

SpecFile == Init /\ [][NextFile]_vars

\* -------------------------------------------------------------------------
\* The pure functions, each applied to an input drawn at the start
\* -------------------------------------------------------------------------
Idle ==
    /\ index = NewIndex(3, FALSE, EmptyDict)
    /\ result = <<>>
    /\ raised = "none"
    /\ catalogs = <<>>

InitQgrams ==
    /\ Idle
    /\ call \in {[op |-> "get_qgrams", str |-> t, q |-> q, done |-> FALSE] :
                    t \in SeqsUpTo(Chars, MaxTextLen), q \in 1..MaxQ}

ApplyGetQgrams ==
    /\ call.op = "get_qgrams" /\ ~call.done
    /\ result' = get_qgrams(call.str, call.q)
    /\ call' = [call EXCEPT !.done = TRUE]
    /\ UNCHANGED <<index, raised, catalogs>>

SpecQgrams == InitQgrams /\ [][ApplyGetQgrams]_vars

InitMerge ==
    /\ Idle
    /\ call \in {[op |-> "merge", lists |-> ls, done |-> FALSE] :
                    ls \in SeqsUpTo(SeqsUpTo(1..MaxId, MaxListLen), MaxLists)}

ApplyMerge ==
    /\ call.op = "merge" /\ ~call.done
    /\ result' = merge(call.lists)
    /\ call' = [call EXCEPT !.done = TRUE]
    /\ UNCHANGED <<index, raised, catalogs>>

SpecMerge == InitMerge /\ [][ApplyMerge]_vars

InitPed ==
    /\ Idle
    /\ call \in {[op |-> "compute_ped", prefix |-> p, str |-> t, delta |-> d, done |-> FALSE] :
                    p \in SeqsUpTo(Chars, MaxPedLen), t \in SeqsUpTo(Chars, MaxPedLen),
                    d \in 0..MaxDelta}

ApplyComputePed ==
    /\ call.op = "compute_ped" /\ ~call.done
    /\ result' = compute_ped(call.prefix, call.str, call.delta)
    /\ call' = [call EXCEPT !.done = TRUE]
    /\ UNCHANGED <<index, raised, catalogs>>

SpecPed == InitPed /\ [][ApplyComputePed]_vars

\* -------------------------------------------------------------------------
\* Notions the properties are stated with
\* -------------------------------------------------------------------------
Range(f) == {f[i] : i \in DOMAIN f}

RECURSIVE Flatten(_)
Flatten(lists) == IF lists = <<>> THEN <<>> ELSE Head(lists) \o Flatten(Tail(lists))

Occurrences(s, id) == Cardinality({i \in 1..Len(s) : s[i] = id})

FirstOccurrence(s, id) == CHOOSE i \in 1..Len(s) : s[i] = id /\ \A j \in 1..(i - 1) : s[j] # id

\* unit-cost edit distance, by its defining recursion
RECURSIVE EditDistance(_, _)
EditDistance(a, b) ==
    IF a = <<>> THEN Len(b)
    ELSE IF b = <<>> THEN Len(a)
    ELSE Min3(EditDistance(Tail(a), b) + 1,
              EditDistance(a, Tail(b)) + 1,
              EditDistance(Tail(a), Tail(b)) + (IF Head(a) = Head(b) THEN 0 ELSE 1))

\* the prefix edit distance: the least distance to any prefix of str
PrefixEditDistance(prefix, str) ==
    LET ds == {EditDistance(prefix, SubSeq(str, 1, j)) : j \in 0..Len(str)}
    IN  CHOOSE d \in ds : \A e \in ds : d <= e

\* -------------------------------------------------------------------------
\* C1: merge returns one pair (id, count) per distinct id of the input lists,
\* count being the number of occurrences of the id in all lists together, in
\* the order in which the ids first occur in the concatenation of the lists;
\* lists that are all empty merge to the empty sequence.
\* -------------------------------------------------------------------------
MergeContract ==
    (call.op = "merge" /\ call.done) =>
        LET all == Flatten(call.lists)
        IN  /\ \A i \in 1..Len(result) : Len(result[i]) = 2
            /\ {result[i][1] : i \in 1..Len(result)} = Range(all)
            /\ \A i, j \in 1..Len(result) : i # j => result[i][1] # result[j][1]
            /\ \A i \in 1..Len(result) : result[i][2] = Occurrences(all, result[i][1])
            /\ \A i, j \in 1..Len(result) :
                  i < j => FirstOccurrence(all, result[i][1]) < FirstOccurrence(all, result[j][1])
            /\ (all = <<>>) => result = <<>>

\* a merge whose order is neither the order of the ids nor of the counts
MergeWitness ==
    /\ call.op = "merge" /\ call.done
    /\ call.lists = << <<2, 1>>, <<1>> >>
    /\ result = << <<2, 1>>, <<1, 2>> >>

\* -------------------------------------------------------------------------
\* C5: compute_ped returns the prefix edit distance when that is at most
\* delta, and a value above delta when it is not.
\* -------------------------------------------------------------------------
PedDecides ==
    (call.op = "compute_ped" /\ call.done) =>
        LET ped == PrefixEditDistance(call.prefix, call.str)
        IN  IF ped <= call.delta THEN result = ped ELSE result > call.delta

\* a call whose matrix is cut short of the text and whose distance is within delta
PedWitness ==
    /\ call.op = "compute_ped" /\ call.done
    /\ Len(call.prefix) + call.delta < Len(call.str)
    /\ call.prefix # <<>>
    /\ result = 1
    /\ result <= call.delta

\* -------------------------------------------------------------------------
\* C6: get_qgrams returns len(padded text) - q + 1 = len(text) + q - 1
\* q-grams; that number is at least 1 unless the text is empty and q = 1,
\* where no q-gram is returned.
\* -------------------------------------------------------------------------
QgramCount ==
    (call.op = "get_qgrams" /\ call.done) =>
        /\ Len(result) = (Len(call.str) + 2 * (call.q - 1)) - call.q + 1
        /\ Len(result) = Len(call.str) + call.q - 1
        /\ (call.str # <<>> \/ call.q >= 2) => Len(result) >= 1
        /\ (call.str = <<>> /\ call.q = 1) => result = <<>>

\* the empty text, shorter than q, has one q-gram of padding
QgramWitness ==
    /\ call.op = "get_qgrams" /\ call.done
    /\ call.str = <<>> /\ call.q = 2
    /\ result = << <<"$", "$">> >>

\* C6 as stated: the count is len(text) + q - 1 and always at least 1
QgramCountAtLeastOne ==
    (call.op = "get_qgrams" /\ call.done) =>
        /\ Len(result) = Len(call.str) + call.q - 1
        /\ Len(result) >= 1

\* -------------------------------------------------------------------------
\* Notions the properties of find_matches are stated with
\* -------------------------------------------------------------------------
IsQuery == call.op = "find_matches"

\* the overlap count of record r: the occurrences of r in the posting lists of
\* the query's q-grams, with multiplicity
OverlapCount(self, query, r) ==
    LET qgrams == get_qgrams(query, self.q)
    IN  Occurrences(Flatten([i \in 1..Len(qgrams) |-> get_posting_list(self, qgrams[i])]), r)

\* floor((len(query) + q - 1) / 4)
FloorThreshold(self, query) == (Len(query) + self.q - 1) \div 4

\* what find_matches returns for record r
Entry(self, query, r) ==
    << self.vocab[r], <<self.latitude[r + 1], self.longitude[r + 1]>>, self.types[r + 1],
       get_score(self, query, Normalize(self.vocab[r])).ed >>

\* no geofence applies to the call: the index is not geofence-aware, no
\* channel_id is supplied, or the channel has no mapping
Unrestricted(self, channel_id) ==
    \/ ~self.use_geofences
    \/ channel_id = None
    \/ channel_id \notin DOMAIN self.channel_to_geofence_helper

\* the candidates that survive the prefilter and the geofence, in merge order
Survivors(self) ==
    ResultWords(self, call.query, call.delta, call.channel_id,
                Candidates(self, call.query, call.use_qindex), 1, <<>>).words

\* the place of the i-th survivor in a stable ascending sort by score
SortedPlace(S, i) ==
    1 + Cardinality({j \in 1..Len(S) : S[j][4] < S[i][4] \/ (S[j][4] = S[i][4] /\ j < i)})

IsPrefix(s, t) == Len(s) <= Len(t) /\ s = SubSeq(t, 1, Len(s))

\* -------------------------------------------------------------------------
\* C2: find_matches with k >= 0 returns the first min(k, n) of the n
\* surviving candidates in stable ascending order of score (ties in merge
\* order), so at most k entries, and the result for k is a prefix of the
\* result for every larger k.
\* -------------------------------------------------------------------------
RankedPrefix ==
    (IsQuery /\ raised = "none" /\ call.k >= 0) =>
        LET S == Survivors(index)
        IN  /\ Len(result) = Min2(call.k, Len(S))
            /\ Len(result) <= call.k
            /\ \A i \in 1..Len(S) :
                  SortedPlace(S, i) <= call.k => result[SortedPlace(S, i)] = S[i]
            /\ \A k2 \in (call.k + 1)..(MaxK + 1) :
                  IsPrefix(result, find_matches(index, call.query, call.delta, k2,
                                                call.use_qindex, call.channel_id).result)

\* two different survivors of equal score, of which k = 1 returns the first seen
RankedPrefixWitness ==
    /\ IsQuery /\ raised = "none" /\ call.k = 1
    /\ LET S == Survivors(index)
       IN  /\ Len(S) = 2
           /\ S[1][4] = S[2][4]
           /\ S[1] # S[2]
           /\ result = <<S[1]>>

\* -------------------------------------------------------------------------
\* C3: with the prefilter enabled, every returned match belongs to a record
\* whose overlap count is at least floor((len(query) + q - 1) / 4), and with
\* no geofence restriction and k at least the number of records every merged
\* candidate whose count reaches that number is returned; delta plays no
\* part.
\* -------------------------------------------------------------------------
PrefilterThreshold ==
    (IsQuery /\ raised = "none" /\ call.use_qindex) =>
        LET thr == FloorThreshold(index, call.query)
            ids == DOMAIN index.vocab
        IN  /\ \A i \in 1..Len(result) :
                  \E r \in ids : /\ OverlapCount(index, call.query, r) >= 1
                                 /\ OverlapCount(index, call.query, r) >= thr
                                 /\ result[i] = Entry(index, call.query, r)
            /\ (Unrestricted(index, call.channel_id) /\ call.k >= Cardinality(ids)) =>
                  \A r \in ids :
                      (/\ OverlapCount(index, call.query, r) >= 1
                       /\ OverlapCount(index, call.query, r) >= thr)
                      => Entry(index, call.query, r) \in Range(result)

\* a query that drops one merged candidate (count 1, threshold 2) and returns another
PrefilterWitness ==
    /\ IsQuery /\ raised = "none" /\ call.use_qindex
    /\ FloorThreshold(index, call.query) = 2
    /\ \E r \in DOMAIN index.vocab : OverlapCount(index, call.query, r) = 1
    /\ \E r \in DOMAIN index.vocab :
          /\ OverlapCount(index, call.query, r) >= 2
          /\ Entry(index, call.query, r) \in Range(result)
    /\ Len(result) = 1

\* -------------------------------------------------------------------------
\* C4: when the index is geofence-aware and the channel_id supplied has a
\* geofence set, every returned match that has coordinates lies inside a
\* geofence of that channel,
\* whatever the value of the channel_id; otherwise no candidate is dropped on
\* geographic grounds.
\* -------------------------------------------------------------------------
GeofenceRespected ==
    (IsQuery /\ raised = "none") =>
        /\ (/\ index.use_geofences
            /\ call.channel_id # None
            /\ call.channel_id \in DOMAIN index.channel_to_geofence_helper)
           => \A i \in 1..Len(result) :
                 result[i][2] # <<None, None>> =>
                    IsInAnyGeofence(index.channel_to_geofence_helper[call.channel_id],
                                    result[i][2][1], result[i][2][2])
        /\ (Unrestricted(index, call.channel_id) /\ call.use_qindex
            /\ call.k >= Cardinality(DOMAIN index.vocab))
           => \A r \in DOMAIN index.vocab :
                 (/\ OverlapCount(index, call.query, r) >= 1
                  /\ OverlapCount(index, call.query, r) >= FloorThreshold(index, call.query))
                 => Entry(index, call.query, r) \in Range(result)

\* -------------------------------------------------------------------------
\* C7: after build_from_file, a row of 1, 2 or 3 fields is stored with its
\* missing latitude and longitude as None and its missing category as
\* UNKNOWN; a category field "Gym" is stored as GYM, "Pokestop" as POKESTOP,
\* any other as UNKNOWN.
\* -------------------------------------------------------------------------
ShortRowsDefaulted ==
    (Len(catalogs) = 1 /\ raised = "none") =>
        LET rows == catalogs[1]
        IN  \A i \in 1..Len(rows) :
               /\ Len(rows[i]) < 2 => index.latitude[i] = None
               /\ Len(rows[i]) < 3 => index.longitude[i] = None
               /\ Len(rows[i]) < 4 => index.types[i] = "UNKNOWN"
               /\ rows[i] = FileGym => index.types[i] = "GYM"
               /\ rows[i] = FileStop => index.types[i] = "POKESTOP"
               /\ rows[i] = FileArena => index.types[i] = "UNKNOWN"

\* -------------------------------------------------------------------------
\* C8: a second build_from_lists of the same catalog on the same index
\* appends every posting list to itself, so every overlap count doubles while
\* the threshold stays; find_matches then returns what it returned after the
\* first build whenever no record has a single-build count c with
\* c < threshold <= 2c.
\* -------------------------------------------------------------------------
Fresh(self) ==
    [self EXCEPT !.inverted_lists = EmptyDict, !.vocab = EmptyDict,
                 !.longitude = <<>>, !.latitude = <<>>, !.types = <<>>]

BuiltOnce == build_from_lists(Fresh(index), catalogs[1])

SameCatalogTwice ==
    /\ Len(catalogs) = 2
    /\ catalogs[1] = catalogs[2]
    /\ BuiltOnce.raised = "none"

OutcomeAfterOneBuild ==
    find_matches(BuiltOnce.self, call.query, call.delta, call.k, call.use_qindex,
                 call.channel_id)

NoCountCrossesThreshold ==
    \A r \in DOMAIN BuiltOnce.self.vocab :
        LET c == OverlapCount(BuiltOnce.self, call.query, r)
        IN  ~(c < FloorThreshold(index, call.query) /\ FloorThreshold(index, call.query) <= 2 * c)

SomeCandidateScored ==
    /\ call.use_qindex
    /\ \E r \in DOMAIN index.vocab :
          /\ OverlapCount(index, call.query, r) >= 1
          /\ OverlapCount(index, call.query, r) >= FloorThreshold(index, call.query)

UnsupportedScoringLazy ==
    /\ ~IsQuery => raised = "none"
    /\ (IsQuery /\ index.scoring_method \notin SCORING_TYPE) =>
          /\ raised = "NotImplementedError" <=> SomeCandidateScored
          /\ raised = "none" => result = <<>>
    /\ (IsQuery /\ index.scoring_method \in SCORING_TYPE) => raised = "none"

\* a query under an unsupported scoring method that raises
UnsupportedScoringWitness ==
    /\ IsQuery
    /\ index.scoring_method \notin SCORING_TYPE
    /\ SomeCandidateScored
    /\ raised = "NotImplementedError"

\* C9 as stated: every prefiltered find_matches call under an unsupported
\* scoring method raises NotImplementedError
UnsupportedScoringRaises ==
    (IsQuery /\ call.use_qindex /\ index.scoring_method \notin SCORING_TYPE)
        => raised = "NotImplementedError"

\* -------------------------------------------------------------------------
\* C10: under AFFINE_GAPS, with no geofence restriction and k >= 1, a
\* surviving record whose normalized word equals the query scores no higher
\* than any surviving record whose normalized word differs, and is returned
\* before it.
\* -------------------------------------------------------------------------
ExactMatchRankedFirst ==
    (/\ IsQuery /\ raised = "none"
     /\ index.scoring_method = "AFFINE_GAPS"
     /\ Unrestricted(index, call.channel_id)
     /\ call.k >= 1) =>
        LET S == Survivors(index)
        IN  /\ \A i, j \in 1..Len(S) :
                  (Normalize(S[i][1]) = call.query /\ Normalize(S[j][1]) # call.query)
                  => S[i][4] <= S[j][4]
            /\ (\E i \in 1..Len(S) : Normalize(S[i][1]) = call.query)
                  => \E i \in 1..Len(S) : Normalize(S[i][1]) = call.query /\ result[1][4] = S[i][4]

====
